---- MODULE Spec2Model ----
(***************************************************************************)
(* WikiRag (src/src/main.rs): a question is read from standard input, a    *)
(* language model derives a keyword, Wikipedia is searched for it, the     *)
(* first wiki_pages result pages are downloaded and a language model       *)
(* answers the question from them.                                         *)
(*                                                                         *)
(* Text is modelled as follows.  Values the program only passes on         *)
(* (question words, keywords, titles, extracts, answers, error messages)   *)
(* are TLA+ strings.  Values the program converts (WIKI_PAGES, page ids,   *)
(* sizes) are sequences of one-character strings.  An output line is the   *)
(* sequence of the fragments its format string produces; println! and      *)
(* eprintln! append one line (the fragments, then a line terminator) to    *)
(* stdout and stderr.  A u32 is a pair of 16-bit limbs, so that the whole  *)
(* range 0 .. 4294967295 and its overflow are exact.                       *)
(***************************************************************************)
EXTENDS Integers, Sequences, FiniteSets, TLC

VARIABLES env, config, pc, question, keywords, pages, page_strings, i,
          answer, stdout, stderr, exited, exit_code, net

vars == <<env, config, pc, question, keywords, pages, page_strings, i,
          answer, stdout, stderr, exited, exit_code, net>>

(* Bounds of the model. *)
MaxResults == 2

(***************************************************************************)
(* u32 arithmetic on 16-bit limbs                                          *)
(***************************************************************************)
LimbBase == 65536

U32(hi, lo) == [hi |-> hi, lo |-> lo]

U32FromNat(n) == U32(n \div LimbBase, n % LimbBase)

U32Zero == U32(0, 0)

U32One == U32(0, 1)

(* u32::checked_mul(10) followed by u32::checked_add(d), d a digit. *)
CheckedMul10Add(n, d) ==
    LET lo10 == n.lo * 10 + d
        hi10 == n.hi * 10 + (lo10 \div LimbBase)
    IN  IF hi10 >= LimbBase
        THEN [ok |-> FALSE, val |-> U32Zero]
        ELSE [ok |-> TRUE, val |-> U32(hi10, lo10 % LimbBase)]

(* i < n for a small index i (a usize below LimbBase) and a u32 n. *)
IndexBelow(k, n) == n.hi > 0 \/ k < n.lo

Digits == <<"0", "1", "2", "3", "4", "5", "6", "7", "8", "9">>

IsDigit(c) == \E d \in 1..Len(Digits) : Digits[d] = c

DigitVal(c) == (CHOOSE d \in 1..Len(Digits) : Digits[d] = c) - 1

RECURSIVE ParseDigits(_, _, _)
ParseDigits(s, k, acc) ==
    IF k > Len(s) THEN [ok |-> TRUE, val |-> acc]
    ELSE IF ~IsDigit(s[k]) THEN [ok |-> FALSE, val |-> U32Zero]
    ELSE LET r == CheckedMul10Add(acc, DigitVal(s[k]))
         IN  IF r.ok THEN ParseDigits(s, k + 1, r.val) ELSE r

(* str::parse::<u32>(): empty, a lone sign, a non-digit or a value above   *)
(* u32::MAX is an Err; one leading "+" is accepted, "-" is not.            *)
parse_u32(s) ==
    IF Len(s) = 0 THEN [ok |-> FALSE, val |-> U32Zero]
    ELSE IF Len(s) = 1 /\ s[1] \in {"+", "-"} THEN [ok |-> FALSE, val |-> U32Zero]
    ELSE IF s[1] = "+" THEN ParseDigits(s, 2, U32Zero)
    ELSE ParseDigits(s, 1, U32Zero)

RECURSIVE to_string(_)
(* u32::to_string(): decimal, no sign, no leading zeros. *)
to_string(n) ==
    LET mid == (n.hi % 10) * LimbBase + n.lo
        q   == U32(n.hi \div 10, mid \div 10)
    IN  IF n.hi = 0 /\ n.lo < 10 THEN <<Digits[n.lo + 1]>>
        ELSE to_string(q) \o <<Digits[(mid % 10) + 1]>>

(***************************************************************************)
(* Results and options                                                     *)
(***************************************************************************)
Ok(v) == [ok |-> TRUE, val |-> v, err |-> ""]

Err(e) == [ok |-> FALSE, val |-> "", err |-> e]

Some(v) == [some |-> TRUE, v |-> v]

None == [some |-> FALSE, v |-> ""]

NoUsage == [some |-> FALSE, v |-> [prompt_tokens |-> 0, completion_tokens |-> 0]]

(***************************************************************************)
(* Configuration                                                           *)
(***************************************************************************)
NotPresent(empty) == [present |-> FALSE, val |-> empty]

Present(v) == [present |-> TRUE, val |-> v]

AllowedOpenAI == {"gpt-4-turbo", "gpt-3.5-turbo", "gpt-4o"}

DefaultConfig ==
    [model |-> "gpt-3.5-turbo", verbose |-> FALSE, wiki_pages |-> U32One,
     llm_server |-> "OpenAI"]

ApplyModel_LlamaHosted(c, e) ==
    IF ~e.AI_MODEL.present THEN c
    ELSE IF e.AI_MODEL.val \in AllowedOpenAI \cup {"llama3"}
         THEN [c EXCEPT !.model = e.AI_MODEL.val, !.llm_server = "OpenAI"]
    ELSE c

ApplyModel(c, e) ==
    IF ~e.AI_MODEL.present THEN c
    ELSE IF e.AI_MODEL.val \in AllowedOpenAI
         THEN [c EXCEPT !.model = e.AI_MODEL.val, !.llm_server = "OpenAI"]
    ELSE IF e.AI_MODEL.val = "llama3"
         THEN [c EXCEPT !.model = e.AI_MODEL.val, !.llm_server = "Ollama"]
    ELSE c

ApplyVerbose(c, e) ==
    IF e.VERBOSE.present /\ e.VERBOSE.val # "" THEN [c EXCEPT !.verbose = TRUE]
    ELSE c

ApplyWikiPages_NoCoercion(c, e) ==
    IF e.WIKI_PAGES.present /\ Len(e.WIKI_PAGES.val) # 0
    THEN LET n == parse_u32(e.WIKI_PAGES.val)
         IN  IF n.ok THEN [c EXCEPT !.wiki_pages = n.val] ELSE c
    ELSE c

ApplyWikiPages(c, e) ==
    IF e.WIKI_PAGES.present /\ Len(e.WIKI_PAGES.val) # 0
    THEN LET n == parse_u32(e.WIKI_PAGES.val)
         IN  IF n.ok
             THEN IF n.val = U32Zero THEN [c EXCEPT !.wiki_pages = U32One]
                  ELSE [c EXCEPT !.wiki_pages = n.val]
             ELSE c
    ELSE c

get_config_from_env(e) == ApplyWikiPages(ApplyVerbose(ApplyModel(DefaultConfig, e), e), e)

(* The eprintln! of the fallback branch. *)
ConfigWarnings(e) ==
    IF e.AI_MODEL.present /\ e.AI_MODEL.val \notin AllowedOpenAI \cup {"llama3"}
    THEN << <<"Unknown model ", e.AI_MODEL.val,
              " requested, falling back to 'gpt-3.5-turbo'.",
              "\nOnly the following models are currently allowed:",
              "\n  - gpt-4-turbo\n  - gpt-4o\n  - gpt-3.5-turbo\n">> >>
    ELSE <<>>

greet == << <<"This is WikiRag!">> >>

(***************************************************************************)
(* Language-model stages                                                   *)
(***************************************************************************)
(* {:.6} of tokens / 1_000_000 * rate dollars, rate given in tenths of a   *)
(* dollar per million tokens; below one dollar.                            *)
FormatCost(tokens, rate10) ==
    LET micros == (tokens * rate10 + 5) \div 10
        ds     == to_string(U32FromNat(micros))
    IN  <<"0.">> \o [k \in 1..(6 - Len(ds)) |-> "0"] \o ds

pretty_print_usage(c, usage) ==
    IF usage.some
    THEN LET rates == CASE c.model = "gpt-4-turbo"   -> <<100, 300>>
                        [] c.model = "gpt-3.5-turbo" -> <<5, 15>>
                        [] c.model = "gpt-4o"        -> <<50, 150>>
                        [] OTHER                     -> <<0, 0>>
         IN  << <<"Tokens in: ">> \o to_string(U32FromNat(usage.v.prompt_tokens))
                \o <<" ($">> \o FormatCost(usage.v.prompt_tokens, rates[1])
                \o <<"), tokens out: ">>
                \o to_string(U32FromNat(usage.v.completion_tokens))
                \o <<" ($">> \o FormatCost(usage.v.completion_tokens, rates[2])
                \o <<")">> >>
    ELSE <<>>

get_keywords_from_chatgpt_Strict(resp) ==
    IF resp.kind = "err" THEN Err(resp.e)
    ELSE IF Len(resp.choices) > 0 /\ resp.choices[1].content.some
         THEN Ok(resp.choices[1].content.v)
         ELSE Err("No keywords found")

get_keywords_from_chatgpt(resp) ==
    IF resp.kind = "err" THEN Err(resp.e)
    ELSE IF Len(resp.choices) > 0
         THEN IF resp.choices[1].content.some
              THEN Ok(resp.choices[1].content.v)
              ELSE Ok("Did not receive response!")
         ELSE Ok("No keywords found")

answer_question_with_wikipage_openai_LastChoice(resp) ==
    IF resp.kind = "err" THEN Err(resp.e)
    ELSE IF Len(resp.choices) > 1
         THEN IF resp.choices[Len(resp.choices)].content.some
              THEN Ok(resp.choices[Len(resp.choices)].content.v)
              ELSE Ok("No response received")
         ELSE Ok("No keywords found")

answer_question_with_wikipage_openai(resp) ==
    IF resp.kind = "err" THEN Err(resp.e)
    ELSE IF Len(resp.choices) > 0
         THEN IF resp.choices[1].content.some
              THEN Ok(resp.choices[1].content.v)
              ELSE Ok("No response received")
         ELSE Ok("No keywords found")

get_keywords_from_ollama(resp) ==
    IF resp.kind = "err" THEN Err(resp.e)
    ELSE IF resp.message.some THEN Ok(resp.message.v)
    ELSE Ok("Did not receive response!")

answer_question_with_wikipage_ollama(resp) ==
    IF resp.kind = "err" THEN Err(resp.e)
    ELSE IF resp.message.some THEN Ok(resp.message.v)
    ELSE Ok("No response received")

(* The prompt of the answer stage: one system message per page and the     *)
(* user message (OpenAI), or one text of the pages, each followed by a     *)
(* newline, and the instruction (Ollama).                                  *)
AnswerInstruction(q) ==
    <<"Now answer the following question, using the information in the provided text: ">> \o q

AnswerPrompt(server, wikipage, q) ==
    IF server = "OpenAI"
    THEN [k \in 1..Len(wikipage) |-> [role |-> "system", name |-> "Wikipedia",
                                      content |-> <<wikipage[k]>>]]
         \o << [role |-> "user", name |-> "", content |-> AnswerInstruction(q)] >>
    ELSE LET RECURSIVE Join(_)
             Join(k) == IF k > Len(wikipage) THEN <<>>
                        ELSE <<wikipage[k], "\n">> \o Join(k + 1)
         IN  << [role |-> "system", name |-> "",
                 content |-> Join(1) \o AnswerInstruction(q)] >>

KeywordInstruction ==
    "Extract exactly one keyword from the user's question for a Wikipedia lookup, respond with just the single keyword."

KeywordPrompt(server, q) ==
    IF server = "OpenAI"
    THEN << [role |-> "system", name |-> "", content |-> <<KeywordInstruction>>],
            [role |-> "user", name |-> "", content |-> q] >>
    ELSE << [role |-> "system", name |-> "",
             content |-> <<KeywordInstruction, " ">> \o q] >>

(***************************************************************************)
(* Wikipedia stages                                                        *)
(***************************************************************************)
(* body.parsed is what serde_json::from_str makes of the body text. *)
search_wikipedia(resp) ==
    IF resp.kind = "err" THEN Err(resp.e)
    ELSE IF ~resp.body.parsed.ok THEN Err(resp.body.parsed.err)
    ELSE LET search == resp.body.parsed.val
         IN  Ok([k \in 1..Len(search) |->
                    [page_id |-> to_string(search[k].pageid),
                     title   |-> search[k].title]])

download_wikipedia_page_Lenient(resp, page_id) ==
    IF resp.kind = "err" THEN Err(resp.e)
    ELSE IF ~resp.body.parsed.ok THEN Err(resp.body.parsed.err)
    ELSE LET map == resp.body.parsed.val
         IN  IF \E en \in map : en.key = page_id
             THEN Ok((CHOOSE en \in map : en.key = page_id).extract)
             ELSE Ok("")

download_wikipedia_page(resp, page_id) ==
    IF resp.kind = "err" THEN Err(resp.e)
    ELSE IF ~resp.body.parsed.ok THEN Err(resp.body.parsed.err)
    ELSE LET map == resp.body.parsed.val
         IN  IF \E en \in map : en.key = page_id
             THEN Ok((CHOOSE en \in map : en.key = page_id).extract)
             ELSE Err("Page not found")

RawResponse(c, resp) ==
    IF resp.kind = "ok" /\ c.verbose
    THEN << <<"Raw response: ", resp.body.raw>> >>
    ELSE <<>>

(***************************************************************************)
(* main                                                                    *)
(***************************************************************************)
(* What deal_with_error does with a stage's result: on Err a line on       *)
(* standard output and std::process::exit(ec), on Ok the value.            *)
deal_with_error_OneCode(r, ec) ==
    IF r.ok
    THEN [exit |-> FALSE, code |-> 0, out |-> <<>>, val |-> r.val]
    ELSE [exit |-> TRUE, code |-> 1, out |-> << <<"Error: ", r.err>> >>,
          val |-> r.val]

deal_with_error(r, ec) ==
    IF r.ok
    THEN [exit |-> FALSE, code |-> 0, out |-> <<>>, val |-> r.val]
    ELSE [exit |-> TRUE, code |-> ec, out |-> << <<"Error: ", r.err>> >>,
          val |-> r.val]

(* str::trim on the fragments of the line read. *)
IsWhitespace(c) == c \in {" ", "\n", "\t", "\r"}

RECURSIVE TrimStart(_)
TrimStart(s) == IF s # <<>> /\ IsWhitespace(Head(s)) THEN TrimStart(Tail(s)) ELSE s

RECURSIVE TrimEnd(_)
TrimEnd(s) ==
    IF s # <<>> /\ IsWhitespace(s[Len(s)]) THEN TrimEnd(SubSeq(s, 1, Len(s) - 1)) ELSE s

trim(s) == TrimEnd(TrimStart(s))

(* {:>10}: right-aligned in ten columns. *)
PadLeft10(s) == [k \in 1..(10 - Len(s)) |-> " "] \o s

(* The step of the range iterator of the download loop. *)
NextIndex_Stuck(k) == k

NextIndex(k) == k + 1

(* The loop header and break of the download loop: the body runs for i. *)
DownloadLoopContinues_AllResults(k, c, ps) == ~(k >= Len(ps))

DownloadLoopContinues_NoBoundsCheck(k, c, ps) == IndexBelow(k, c.wiki_pages)

DownloadLoopContinues(k, c, ps) == IndexBelow(k, c.wiki_pages) /\ ~(k >= Len(ps))

(***************************************************************************)
(* The environment: what the process is started with and what the          *)
(* services may reply.                                                     *)
(***************************************************************************)
Chars(n) == to_string(U32FromNat(n))

EnvModels ==
    {NotPresent(""), Present("gpt-4-turbo"), Present("gpt-3.5-turbo"),
     Present("gpt-4o"), Present("llama3"), Present("gpt-5")}

EnvVerbose == {NotPresent(""), Present(""), Present("1")}

EnvWikiPages ==
    {NotPresent(<<>>), Present(<<>>), Present(<<"a", "b", "c">>),
     Present(<<"-", "1">>), Present(<<"+", "2">>), Present(<<"0">>),
     Present(<<"0", "0">>), Present(<<"1">>), Present(<<"2">>),
     Present(<<"0", "3">>),
     Present(<<"4", "2", "9", "4", "9", "6", "7", "2", "9", "5">>),
     Present(<<"4", "2", "9", "4", "9", "6", "7", "2", "9", "6">>)}

StdinLines == { <<"What is the capital of France?", "\n">>, <<"\n">> }

KeywordTexts == {"Paris"}

AnswerTexts == {"The capital of France is Paris."}

Extracts == {"Paris is the capital of France.", "France is a country in Western Europe."}

(* String::len of the extracts above, in bytes. *)
ByteLen(text) ==
    CASE text = "" -> 0
      [] text = "Paris is the capital of France." -> 31
      [] text = "France is a country in Western Europe." -> 38

LlmResponse(kind, e, choices, message, usage) ==
    [kind |-> kind, e |-> e, choices |-> choices, message |-> message, usage |-> usage]

OpenAIResponses(texts) ==
    {LlmResponse("err", "error sending request", <<>>, None, NoUsage),
     LlmResponse("ok", "", <<>>, None, NoUsage),
     LlmResponse("ok", "", << [content |-> None] >>, None, NoUsage)}
    \cup {LlmResponse("ok", "", << [content |-> Some(t)] >>, None, u) :
            t \in texts,
            u \in {NoUsage, Some([prompt_tokens |-> 12, completion_tokens |-> 2])}}

OllamaResponses(texts) ==
    {LlmResponse("err", "error sending request", <<>>, None, NoUsage),
     LlmResponse("ok", "", <<>>, None, NoUsage)}
    \cup {LlmResponse("ok", "", <<>>, Some(t), NoUsage) : t \in texts}

LlmResponses(server, texts) ==
    IF server = "OpenAI" THEN OpenAIResponses(texts) ELSE OllamaResponses(texts)

ResultPool ==
    {[pageid |-> U32FromNat(22989), title |-> "Paris"],
     [pageid |-> U32FromNat(5843419), title |-> "France"]}

ResultLists == UNION {[1..n -> ResultPool] : n \in 0..MaxResults}

WikiResponse(kind, e, raw, parsed) ==
    [kind |-> kind, e |-> e, body |-> [raw |-> raw, parsed |-> parsed]]

SearchResponses ==
    {WikiResponse("err", "error sending request", "", [ok |-> FALSE, val |-> <<>>, err |-> ""]),
     WikiResponse("ok", "", "<html>",
                  [ok |-> FALSE, val |-> <<>>, err |-> "expected value at line 1 column 1"])}
    \cup {WikiResponse("ok", "", "{\"query\":{\"search\":[..]}}",
                       [ok |-> TRUE, val |-> l, err |-> ""]) : l \in ResultLists}

DownloadResponses(page_id) ==
    {WikiResponse("err", "error sending request", "", [ok |-> FALSE, val |-> {}, err |-> ""]),
     WikiResponse("ok", "", "<html>",
                  [ok |-> FALSE, val |-> {}, err |-> "expected value at line 1 column 1"]),
     WikiResponse("ok", "", "{\"query\":{\"pages\":{}}}",
                  [ok |-> TRUE, val |-> {}, err |-> ""])}
    \cup {WikiResponse("ok", "", "{\"query\":{\"pages\":{..}}}",
                       [ok |-> TRUE, val |-> {[key |-> k, extract |-> x]}, err |-> ""]) :
            k \in {page_id, Chars(7)}, x \in Extracts}

(***************************************************************************)
(* The run.  net is the sequence of network calls made so far, each with   *)
(* its request, whether its .await has completed, and the reply.           *)
(***************************************************************************)
Call(stage, server, pos, arg, pending) ==
    [stage |-> stage, server |-> server, pos |-> pos, arg |-> arg,
     done |-> FALSE, resp |-> pending]

PendingLlm == LlmResponse("pending", "", <<>>, None, NoUsage)

PendingWiki == WikiResponse("pending", "", "", [ok |-> FALSE, val |-> <<>>, err |-> ""])

Complete(resp) == [net EXCEPT ![Len(net)].done = TRUE, ![Len(net)].resp = resp]

Exit(code) ==
    /\ exited' = TRUE
    /\ exit_code' = code
    /\ pc' = "exited"

Init ==
    /\ env \in [AI_MODEL : EnvModels, VERBOSE : EnvVerbose, WIKI_PAGES : EnvWikiPages]
    /\ config = DefaultConfig
    /\ pc = "start"
    /\ question = <<>>
    /\ keywords = ""
    /\ pages = <<>>
    /\ page_strings = <<>>
    /\ i = 0
    /\ answer = ""
    /\ stdout = <<>>
    /\ stderr = <<>>
    /\ exited = FALSE
    /\ exit_code = 0
    /\ net = <<>>

(* greet(), get_config_from_env() and the prompt for the question. *)
Startup ==
    /\ pc = "start"
    /\ config' = get_config_from_env(env)
    /\ stderr' = stderr \o greet \o ConfigWarnings(env)
                        \o << <<"Please enter your question:">> >>
    /\ pc' = "read_question"
    /\ UNCHANGED <<env, question, keywords, pages, page_strings, i, answer, stdout,
                   exited, exit_code, net>>

(* read_line and the announcement of the keyword stage. *)
ReadQuestion ==
    /\ pc = "read_question"
    /\ \E line \in StdinLines : question' = line
    /\ stderr' = Append(stderr, <<"\nPerforming keyword derivation using LLM model ",
                                  config.model, "...">>)
    /\ pc' = "keywords"
    /\ UNCHANGED <<env, config, keywords, pages, page_strings, i, answer, stdout,
                   exited, exit_code, net>>

(* The keyword request is sent to the configured provider. *)
KeywordsCall ==
    /\ pc = "keywords"
    /\ net' = Append(net, Call("keywords", config.llm_server, 0,
                               KeywordPrompt(config.llm_server, trim(question)),
                               PendingLlm))
    /\ pc' = "keywords_await"
    /\ UNCHANGED <<env, config, question, keywords, pages, page_strings, i, answer,
                   stdout, stderr, exited, exit_code>>

KeywordsResult(resp) ==
    IF config.llm_server = "OpenAI" THEN get_keywords_from_chatgpt(resp)
    ELSE get_keywords_from_ollama(resp)

UsageLines(resp) ==
    IF config.llm_server = "OpenAI" /\ resp.kind = "ok"
    THEN pretty_print_usage(config, resp.usage)
    ELSE <<>>

(* The keyword reply arrives; deal_with_error(res, 1). *)
KeywordsReturn ==
    /\ pc = "keywords_await"
    /\ \E resp \in LlmResponses(config.llm_server, KeywordTexts) :
         LET d == deal_with_error(KeywordsResult(resp), 1)
         IN  /\ net' = Complete(resp)
             /\ stdout' = stdout \o d.out
             /\ IF d.exit
                THEN /\ Exit(d.code)
                     /\ stderr' = stderr \o UsageLines(resp)
                     /\ UNCHANGED keywords
                ELSE /\ keywords' = d.val
                     /\ stderr' = stderr \o UsageLines(resp)
                                         \o << <<"Keywords found: ", d.val>> >>
                     /\ pc' = "search"
                     /\ UNCHANGED <<exited, exit_code>>
    /\ UNCHANGED <<env, config, question, pages, page_strings, i, answer>>

(* The search request is sent. *)
SearchCall ==
    /\ pc = "search"
    /\ stderr' = Append(stderr, <<"\nPerforming lookup in Wikipedia using '",
                                  keywords, "'...">>)
    /\ net' = Append(net, Call("search", "Wikipedia", 0, keywords, PendingWiki))
    /\ pc' = "search_await"
    /\ UNCHANGED <<env, config, question, keywords, pages, page_strings, i, answer,
                   stdout, exited, exit_code>>

SearchTable(ps) ==
    << <<"Wikipedia search results:">>, <<"  page id | title">>,
       <<"==========|===============================">> >>
    \o [k \in 1..Len(ps) |-> PadLeft10(ps[k].page_id) \o <<"| ", ps[k].title>>]
    \o << <<"">> >>

(* The search reply arrives; deal_with_error(res, 2); the result table. *)
SearchReturn ==
    /\ pc = "search_await"
    /\ \E resp \in SearchResponses :
         LET d == deal_with_error(search_wikipedia(resp), 2)
         IN  /\ net' = Complete(resp)
             /\ stdout' = stdout \o d.out
             /\ IF d.exit
                THEN /\ Exit(d.code)
                     /\ stderr' = stderr \o RawResponse(config, resp)
                     /\ UNCHANGED <<pages, page_strings, i>>
                ELSE /\ pages' = d.val
                     /\ page_strings' = <<>>
                     /\ i' = 0
                     /\ stderr' = stderr \o RawResponse(config, resp) \o SearchTable(d.val)
                     /\ pc' = "download_loop"
                     /\ UNCHANGED <<exited, exit_code>>
    /\ UNCHANGED <<env, config, question, keywords, answer>>

(* One more turn of the download loop: the request for pages[i] is sent.   *)
(* Indexing a Vec past its end panics (exit code 101).                     *)
DownloadCall ==
    /\ pc = "download_loop"
    /\ DownloadLoopContinues(i, config, pages)
    /\ IF i < Len(pages)
       THEN /\ net' = Append(net, Call("download", "Wikipedia", i, pages[i + 1].page_id,
                                       PendingWiki))
            /\ pc' = "download_await"
            /\ UNCHANGED <<stderr, exited, exit_code>>
       ELSE /\ stderr' = Append(stderr, <<"thread 'main' panicked: index out of bounds">>)
            /\ Exit(101)
            /\ UNCHANGED net
    /\ UNCHANGED <<env, config, question, keywords, pages, page_strings, i, answer,
                   stdout>>

(* The extract reply arrives; deal_with_error(res, 3); the page is kept. *)
DownloadReturn ==
    /\ pc = "download_await"
    /\ \E resp \in DownloadResponses(pages[i + 1].page_id) :
         LET d == deal_with_error(download_wikipedia_page(resp, pages[i + 1].page_id), 3)
         IN  /\ net' = Complete(resp)
             /\ stdout' = stdout \o d.out
             /\ IF d.exit
                THEN /\ Exit(d.code)
                     /\ stderr' = stderr \o RawResponse(config, resp)
                     /\ UNCHANGED <<page_strings, i>>
                ELSE /\ page_strings' = Append(page_strings, d.val)
                     /\ i' = NextIndex(i)
                     /\ stderr' = stderr \o RawResponse(config, resp)
                            \o << <<"Wikipedia page downloaded '", pages[i + 1].title,
                                    "': Size: ">> \o Chars(ByteLen(d.val)) >>
                     /\ pc' = "download_loop"
                     /\ UNCHANGED <<exited, exit_code>>
    /\ UNCHANGED <<env, config, question, keywords, pages, answer>>

(* The loop has ended: the answer request is sent to the configured provider. *)
AnswerCall ==
    /\ pc = "download_loop"
    /\ ~DownloadLoopContinues(i, config, pages)
    /\ stderr' = Append(stderr, <<"\nAnswering question using Wikipedia pages and LLM model...">>)
    /\ net' = Append(net, Call("answer", config.llm_server, 0,
                               AnswerPrompt(config.llm_server, page_strings, question),
                               PendingLlm))
    /\ pc' = "answer_await"
    /\ UNCHANGED <<env, config, question, keywords, pages, page_strings, i, answer,
                   stdout, exited, exit_code>>

AnswerResult(resp) ==
    IF config.llm_server = "OpenAI" THEN answer_question_with_wikipage_openai(resp)
    ELSE answer_question_with_wikipage_ollama(resp)

(* The answer reply arrives; deal_with_error(res, 4); the answer is        *)
(* printed and main returns.                                               *)
AnswerReturn ==
    /\ pc = "answer_await"
    /\ \E resp \in LlmResponses(config.llm_server, AnswerTexts) :
         LET d == deal_with_error(AnswerResult(resp), 4)
         IN  /\ net' = Complete(resp)
             /\ IF d.exit
                THEN /\ Exit(d.code)
                     /\ stdout' = stdout \o d.out
                     /\ stderr' = stderr \o UsageLines(resp)
                     /\ UNCHANGED answer
                ELSE /\ answer' = d.val
                     /\ stderr' = stderr \o UsageLines(resp) \o << <<"\nAnswer:">> >>
                     /\ stdout' = stdout \o d.out \o << <<d.val>> >>
                     /\ Exit(0)
    /\ UNCHANGED <<env, config, question, keywords, pages, page_strings, i>>

Next ==
    \/ Startup
    \/ ReadQuestion
    \/ KeywordsCall
    \/ KeywordsReturn
    \/ SearchCall
    \/ SearchReturn
    \/ DownloadCall
    \/ DownloadReturn
    \/ AnswerCall
    \/ AnswerReturn

Spec == Init /\ [][Next]_vars

(***************************************************************************)
(* Properties                                                              *)
(***************************************************************************)
LastCall == net[Len(net)]

(* A reply that is an error of its stage: a transport or API error, a body *)
(* that does not parse, or (download) a page map without the requested id. *)
Failed(c) ==
    /\ c.done
    /\ \/ c.resp.kind = "err"
       \/ /\ c.stage \in {"search", "download"}
          /\ ~c.resp.body.parsed.ok
       \/ /\ c.stage = "download"
          /\ c.resp.body.parsed.ok
          /\ ~\E en \in c.resp.body.parsed.val : en.key = c.arg

StageCode(stage) ==
    CASE stage = "keywords" -> 1
      [] stage = "search"   -> 2
      [] stage = "download" -> 3
      [] stage = "answer"   -> 4

(* C1: when the process has ended, its exit code is 1, 2, 3 or 4 exactly   *)
(* when the keyword, search, download or answer stage returned an error,   *)
(* and 0 exactly when no stage failed and the answer stage completed.      *)
C1_ExitCodeIdentifiesStage ==
    exited =>
        /\ net # <<>>
        /\ LastCall.done
        /\ \A k \in 1..(Len(net) - 1) : ~Failed(net[k])
        /\ IF Failed(LastCall)
           THEN exit_code = StageCode(LastCall.stage)
           ELSE exit_code = 0 /\ LastCall.stage = "answer"
        /\ exit_code \in 0..4

C1_Witness ==
    /\ exited
    /\ exit_code = 3
    /\ LastCall.stage = "download"
    /\ LastCall.pos = 1

(* C2: a failed call is the last call ever made and the process has ended  *)
(* with it; after a "Page not found" the exit code is 3, no further page   *)
(* and no answer is requested and standard output holds no answer.         *)
C2_FailFast ==
    \A k \in 1..Len(net) :
        /\ Failed(net[k]) => exited /\ k = Len(net) /\ exit_code # 0
        /\ ( /\ net[k].stage = "download"
             /\ net[k].done
             /\ net[k].resp.kind = "ok"
             /\ net[k].resp.body.parsed.ok
             /\ ~\E en \in net[k].resp.body.parsed.val : en.key = net[k].arg )
           => /\ exited
              /\ exit_code = 3
              /\ k = Len(net)
              /\ ~\E j \in 1..Len(net) : net[j].stage = "answer"
              /\ answer = ""
              /\ stdout = << <<"Error: ", "Page not found">> >>

C2_Witness ==
    /\ exited
    /\ exit_code = 3
    /\ Len(pages) = 2
    /\ IndexBelow(1, config.wiki_pages)
    /\ LastCall.pos = 0
    /\ LastCall.resp.body.parsed.ok

(* C3: the calls are made in the order keyword, search, downloads of       *)
(* positions 0, 1, 2, ..., answer; a call is made only when every earlier  *)
(* call has completed without error; at most one call is in flight; the    *)
(* keyword, search and answer calls and each position occur at most once.  *)
C3_StrictLinearSequence ==
    /\ \A k \in 1..Len(net) :
        /\ k < Len(net) => net[k].done /\ ~Failed(net[k])
        /\ net[k].stage = "keywords" <=> k = 1
        /\ net[k].stage = "search" <=> k = 2
        /\ net[k].stage = "answer" => k = Len(net) /\ k > 2
        /\ net[k].stage = "download" => net[k].pos = k - 3
        /\ net[k].stage \in {"keywords", "search", "download", "answer"}
    /\ Cardinality({k \in 1..Len(net) : ~net[k].done}) <= 1
    /\ \A k, j \in 1..Len(net) :
        (k # j /\ net[k].stage = net[j].stage) =>
            net[k].stage = "download" /\ net[k].pos # net[j].pos
    /\ pc \in {"start", "read_question", "keywords"} => net = <<>>
    /\ pc \in {"keywords_await", "search"} => Len(net) = 1
    /\ pc = "search_await" => Len(net) = 2
    /\ pc = "answer_await" => LastCall.stage = "answer"

C3_Witness ==
    /\ exited
    /\ exit_code = 0
    /\ Len(net) = 5

Downloads == SelectSeq(net, LAMBDA c : c.stage = "download")

ExtractIn(c) == (CHOOSE en \in c.resp.body.parsed.val : en.key = c.arg).extract

MinKM(K, M) == IF K.hi > 0 \/ K.lo > M THEN M ELSE K.lo

(* C4: when the answer is requested, exactly min(K, M) downloads have been *)
(* made, the j-th for the page id of the j-th search result, and the       *)
(* prompt carries their extracts in that order.                            *)
C4_FetchesMinKMInOrder ==
    (Len(net) > 2 /\ LastCall.stage = "answer") =>
        LET L == net[2].resp.body.parsed.val
            D == Downloads
            P == LastCall.arg
        IN  /\ Len(D) = MinKM(config.wiki_pages, Len(L))
            /\ \A j \in 1..Len(D) :
                /\ D[j].pos = j - 1
                /\ parse_u32(D[j].arg) = [ok |-> TRUE, val |-> L[j].pageid]
                /\ page_strings[j] = ExtractIn(D[j])
                /\ IF config.llm_server = "OpenAI"
                   THEN P[j].content = <<ExtractIn(D[j])>>
                   ELSE P[1].content[2 * j - 1] = ExtractIn(D[j])
            /\ Len(page_strings) = Len(D)
            /\ IF config.llm_server = "OpenAI" THEN Len(P) = Len(D) + 1 ELSE Len(P) = 1

C4_Witness ==
    /\ pc = "answer_await"
    /\ Len(pages) = 2
    /\ config.wiki_pages = U32One
    /\ Len(Downloads) = 1
    /\ pages[1].title = "France"

(* C5: a run without a failed stage ends with exit code 0 and standard     *)
(* output holding one line, the text the answer stage returned; nothing is *)
(* written there while the answer call has not completed.                  *)
C5_AnswerIsTheOutput ==
    /\ (exited /\ ~Failed(LastCall)) =>
        /\ exit_code = 0
        /\ stdout = << <<answer>> >>
        /\ LastCall.resp.kind = "ok"
        /\ \A t \in AnswerTexts :
            ( \/ LastCall.resp.message = Some(t)
              \/ /\ Len(LastCall.resp.choices) > 0
                 /\ LastCall.resp.choices[1].content = Some(t) ) => answer = t
    /\ (exited /\ exit_code = 0) => LastCall.stage = "answer" /\ ~Failed(LastCall)
    /\ ~exited => stdout = <<>>

C5_Witness ==
    /\ exited
    /\ exit_code = 0
    /\ question = <<"What is the capital of France?", "\n">>
    /\ keywords = "Paris"
    /\ pages = << [page_id |-> Chars(22989), title |-> "Paris"] >>
    /\ page_strings = <<"Paris is the capital of France.">>
    /\ stdout = << <<"The capital of France is Paris.">> >>

(* A reply that completed without an error and carries no content. *)
NoContent(c) ==
    /\ c.done
    /\ c.resp.kind = "ok"
    /\ IF c.server = "OpenAI"
       THEN Len(c.resp.choices) = 0 \/ ~c.resp.choices[1].content.some
       ELSE ~c.resp.message.some

Sentinels == {"Did not receive response!", "No keywords found", "No response received"}

(* C6: a keyword reply without content does not end the run: the keyword   *)
(* is a sentinel text and the search is made with it; an answer reply      *)
(* without content ends the run with exit code 0 and the sentinel text as  *)
(* the output.                                                             *)
C6_SoftFailOnMissingContent ==
    \A k \in 1..Len(net) :
        /\ (net[k].stage = "keywords" /\ NoContent(net[k])) =>
            /\ keywords \in Sentinels
            /\ ~(exited /\ exit_code = 1)
            /\ Len(net) = 1 => pc = "search" /\ ~exited
            /\ Len(net) >= 2 => net[2].stage = "search" /\ net[2].arg = keywords
        /\ (net[k].stage = "answer" /\ NoContent(net[k])) =>
            /\ exited
            /\ exit_code = 0
            /\ answer \in Sentinels
            /\ stdout = << <<answer>> >>

C6_Witness ==
    /\ exited
    /\ exit_code = 0
    /\ NoContent(net[1])
    /\ NoContent(LastCall)
    /\ LastCall.stage = "answer"
    /\ config.llm_server = "OpenAI"
    /\ Len(net) = 4

IsDigits(s) == Len(s) > 0 /\ \A k \in 1..Len(s) : IsDigit(s[k])

RECURSIVE StripZeros(_)
StripZeros(s) == IF s # <<>> /\ Head(s) = "0" THEN StripZeros(Tail(s)) ELSE s

Unsigned(s) == IF s # <<>> /\ Head(s) = "+" THEN Tail(s) ELSE s

U32MaxDigits == <<"4", "2", "9", "4", "9", "6", "7", "2", "9", "5">>

(* The numeral d, without leading zeros, is at most 4294967295. *)
FitsU32(d) ==
    \/ Len(d) < Len(U32MaxDigits)
    \/ /\ Len(d) = Len(U32MaxDigits)
       /\ \A k \in 1..Len(d) :
            (\A j \in 1..(k - 1) : d[j] = U32MaxDigits[j]) =>
                DigitVal(d[k]) <= DigitVal(U32MaxDigits[k])

NeverZeroFetches ==
    (Len(net) > 2 /\ LastCall.stage = "answer" /\ Len(pages) > 0) => Len(Downloads) >= 1

(* C7 as stated: the page count is at least one; a WIKI_PAGES of zero, a   *)
(* non-numeric, empty or unset one gives 1; every positive integer n       *)
(* gives n.                                                                *)
C7_EveryPositiveIntegerIsKept ==
    pc # "start" =>
        LET w == env.WIKI_PAGES
        IN  /\ config.wiki_pages # U32Zero
            /\ (w.present /\ IsDigits(w.val) /\ StripZeros(w.val) # <<>>) =>
                to_string(config.wiki_pages) = StripZeros(w.val)
            /\ (~w.present \/ ~IsDigits(Unsigned(w.val)) \/ StripZeros(Unsigned(w.val)) = <<>>) =>
                config.wiki_pages = U32One
            /\ NeverZeroFetches

(* C7 amended: the page count is at least one; a decimal numeral (with an  *)
(* optional leading "+") of value n in 1 .. 4294967295 gives n; zero, a    *)
(* numeral above 4294967295, any other text, an empty or an unset          *)
(* WIKI_PAGES gives 1; so a non-empty result list is never left unfetched. *)
C7_PageCountAtLeastOne ==
    pc # "start" =>
        LET w == env.WIKI_PAGES
            d == StripZeros(Unsigned(w.val))
        IN  /\ config.wiki_pages # U32Zero
            /\ IndexBelow(0, config.wiki_pages)
            /\ (w.present /\ IsDigits(Unsigned(w.val)) /\ d # <<>> /\ FitsU32(d)) =>
                to_string(config.wiki_pages) = d
            /\ (~w.present \/ ~IsDigits(Unsigned(w.val)) \/ d = <<>> \/ ~FitsU32(d)) =>
                config.wiki_pages = U32One
            /\ NeverZeroFetches

C7_Witness ==
    /\ env.WIKI_PAGES = Present(<<"4", "2", "9", "4", "9", "6", "7", "2", "9", "6">>)
    /\ config.wiki_pages = U32One
    /\ pc = "answer_await"
    /\ Len(pages) = 2
    /\ Len(Downloads) = 1

AllowList == {"gpt-4-turbo", "gpt-3.5-turbo", "gpt-4o", "llama3"}

(* C8: configuration always completes with a model of the allow-list: the  *)
(* requested one if listed, else gpt-3.5-turbo on the hosted provider; the *)
(* provider is the local one exactly for llama3; the keyword and the       *)
(* answer call go to that same provider.                                   *)
C8_ModelFromAllowList ==
    /\ pc # "start" =>
        /\ config.model \in AllowList
        /\ (env.AI_MODEL.present /\ env.AI_MODEL.val \in AllowList) =>
            config.model = env.AI_MODEL.val
        /\ (~env.AI_MODEL.present \/ env.AI_MODEL.val \notin AllowList) =>
            config.model = "gpt-3.5-turbo" /\ config.llm_server = "OpenAI"
        /\ config.model = "llama3" <=> config.llm_server = "Ollama"
        /\ config.llm_server \in {"OpenAI", "Ollama"}
    /\ pc \in {"start", "read_question"} => ~exited
    /\ \A k \in 1..Len(net) :
        net[k].stage \in {"keywords", "answer"} => net[k].server = config.llm_server

C8_Witness ==
    /\ env.AI_MODEL = Present("gpt-5")
    /\ exited
    /\ exit_code = 0
    /\ net[1].server = "OpenAI"
    /\ LastCall.server = "OpenAI"

(* The search completed without error and returned no result. *)
EmptySearch ==
    /\ Len(net) >= 2
    /\ net[2].done
    /\ net[2].resp.kind = "ok"
    /\ net[2].resp.body.parsed.ok
    /\ net[2].resp.body.parsed.val = <<>>

(* C9 as stated: after a search without results the download loop fails    *)
(* on an out-of-range index, so the answer is never requested.             *)
C9_EmptySearchCrashes ==
    EmptySearch => ~\E k \in 1..Len(net) : net[k].stage = "answer"

(* C9 amended: no run ends on an out-of-range index; after a search        *)
(* without results the loop ends before its first turn: no page is         *)
(* requested and the answer is requested with no extract in the prompt.    *)
C9_EmptySearchSkipsDownloads ==
    /\ ~(exited /\ exit_code = 101)
    /\ EmptySearch =>
        /\ pages = <<>>
        /\ Downloads = <<>>
        /\ Len(net) = 2 => pc = "download_loop"
        /\ Len(net) >= 3 =>
            /\ Len(net) = 3
            /\ net[3].stage = "answer"
            /\ page_strings = <<>>
            /\ IF config.llm_server = "OpenAI"
               THEN Len(net[3].arg) = 1 /\ net[3].arg[1].role = "user"
               ELSE net[3].arg[1].content = AnswerInstruction(question)

C9_Witness ==
    /\ EmptySearch
    /\ exited
    /\ exit_code = 0
    /\ stdout = << <<"The capital of France is Paris.">> >>

(* C10: a run that ends with a non-zero exit code has written its error    *)
(* message to standard error and nothing to standard output.               *)
C10_ErrorsOnStderrOnly ==
    (exited /\ exit_code # 0) =>
        /\ stdout = <<>>
        /\ \E k \in 1..Len(stderr) : Head(stderr[k]) = "Error: "

====
